---- MODULE Spec2Model ----
(***************************************************************************)
(* TaskQueue (src/src/utils/task_queue.ts): a bounded-concurrency task     *)
(* queue.  The scheduler's fields are the variables; every method is an    *)
(* operator from a state record to a state record, so that a handler that  *)
(* calls other methods (runTask -> sendAllDone -> a listener -> stop) is   *)
(* one step.  The promise of each task execution is modelled by its        *)
(* settlement state: the code after `await` in runTask is a step of its    *)
(* own, taken after the promise has settled.                               *)
(***************************************************************************)
EXTENDS Integers, Sequences, FiniteSets, Bags, TLC

\* ------------------------------------------------------------- bounds
MaxTasks == 3       \* tasks ever admitted
MaxWorkers == 2     \* totalWorkers is drawn from 1..MaxWorkers
MaxRetries == 1     \* retries is drawn from 0..MaxRetries
MaxStarts == 2      \* calls of startExecution
Denom == 2          \* a totalWorkers argument is a multiple of 1 / Denom
MaxListeners == 2   \* listeners registered at a time

\* _totalWorkers as the field is initialised
DefaultWorkers == 30
\* totalWorkers as runTaskQueue passes it when it is given none
RunDefaultWorkers == 30

Null == 0
TaskIds == 1..MaxTasks

\* The error value with which attempt a of task t fails: one value per
\* (task, attempt), so that two failures never carry the same value.
ErrorOf(t, a) == 10 * t + a

VARIABLES
  \* fields of TaskQueue
  tasks,                  \* pending QueuedTasks, front first
  attempts,               \* QueuedTask.attempts, per task
  failures,               \* QueuedTask.failures, per task
  totalUniqueTasksAdded,
  completeTasks,          \* _completeTasks: the code pushes to it and reads
                          \* its length, never its order: a bag of tasks
  failedTasks,            \* _failedTasks: likewise, a bag of {task, error}
  totalWorkers,           \* _totalWorkers
  workers,                \* workers[i]: the bound QueuedTask or Null
  retries,
  aborted,                \* abortController.signal.aborted
  \* the promise returned by TaskRunner.run, per task
  est,                    \* "none", "running", "resolved", "rejected",
                          \* "aborted", "zombie"
  ew,                     \* the index runTask was called with (0 once over)
  \* history
  created,                \* QueuedTasks ever created
  nStart,                 \* startExecution calls made
  cleared,                \* clearQueue has reset the queue
  nDrained,               \* ALL_WORKERS_IDLE events dispatched
  lastDrained,            \* the last one, and the state it was sent in
  evCompleted, evError,   \* TASK_COMPLETED / TASK_ERROR events dispatched
  lastError,              \* payload of the last TASK_ERROR
  cancelled,              \* tasks whose execution stop() cancelled
  threw,                  \* the step just taken was a clearQueue that threw
  halted,                 \* stop() called, and no startExecution() since
  lateStart,              \* an execution was started while halted
  haltDrained,            \* an ALL_WORKERS_IDLE event was sent while halted
  addedLate,              \* addTasks was called after a startExecution()
  settledOk, settledErr,  \* per task: executions that succeeded / failed
  discarded,              \* tasks that clearQueue took out of the queue
  ctor,                   \* the arguments of the constructor call to come
  \* the listeners
  listeners,              \* the EventTarget's list: {type, cb, capture}, in
                          \* the order of registration
  eventListeners,         \* TaskQueue.eventListeners: the {type, cb} recorded
  invoked,                \* per callback: the times it was called
  stale,                  \* callbacks recorded when clearAllEventListeners
                          \* was called, and not registered since
  result,                 \* the promise returned by runTaskQueue
  lastTaskEvent           \* what the listeners of the last TASK_COMPLETED /
                          \* TASK_ERROR event found when it was dispatched

vars == <<tasks, attempts, failures, totalUniqueTasksAdded, completeTasks,
          failedTasks, totalWorkers, workers, retries, aborted, est, ew,
          created, nStart, cleared, nDrained, lastDrained,
          evCompleted, evError, lastError, cancelled, threw, halted,
          lateStart, haltDrained, addedLate, settledOk, settledErr,
          discarded, ctor, listeners, eventListeners, invoked, stale,
          result, lastTaskEvent>>

\* The state as one record, and back.  threw is about the step being taken:
\* every step starts with it FALSE.
Q == [tasks |-> tasks, attempts |-> attempts, failures |-> failures,
      totalUniqueTasksAdded |-> totalUniqueTasksAdded,
      completeTasks |-> completeTasks, failedTasks |-> failedTasks,
      totalWorkers |-> totalWorkers, workers |-> workers,
      retries |-> retries, aborted |-> aborted, est |-> est, ew |-> ew,
      created |-> created, nStart |-> nStart, cleared |-> cleared,
      nDrained |-> nDrained, lastDrained |-> lastDrained,
      evCompleted |-> evCompleted, evError |-> evError,
      lastError |-> lastError, cancelled |-> cancelled, threw |-> FALSE,
      halted |-> halted, lateStart |-> lateStart,
      haltDrained |-> haltDrained, addedLate |-> addedLate,
      settledOk |-> settledOk, settledErr |-> settledErr,
      discarded |-> discarded, ctor |-> ctor,
      listeners |-> listeners, eventListeners |-> eventListeners,
      invoked |-> invoked, stale |-> stale, result |-> result,
      lastTaskEvent |-> lastTaskEvent]

Commit(q) ==
  /\ tasks' = q.tasks
  /\ attempts' = q.attempts
  /\ failures' = q.failures
  /\ totalUniqueTasksAdded' = q.totalUniqueTasksAdded
  /\ completeTasks' = q.completeTasks
  /\ failedTasks' = q.failedTasks
  /\ totalWorkers' = q.totalWorkers
  /\ workers' = q.workers
  /\ retries' = q.retries
  /\ aborted' = q.aborted
  /\ est' = q.est
  /\ ew' = q.ew
  /\ created' = q.created
  /\ nStart' = q.nStart
  /\ cleared' = q.cleared
  /\ nDrained' = q.nDrained
  /\ lastDrained' = q.lastDrained
  /\ evCompleted' = q.evCompleted
  /\ evError' = q.evError
  /\ lastError' = q.lastError
  /\ cancelled' = q.cancelled
  /\ threw' = q.threw
  /\ halted' = q.halted
  /\ lateStart' = q.lateStart
  /\ haltDrained' = q.haltDrained
  /\ addedLate' = q.addedLate
  /\ settledOk' = q.settledOk
  /\ settledErr' = q.settledErr
  /\ discarded' = q.discarded
  /\ ctor' = q.ctor
  /\ listeners' = q.listeners
  /\ eventListeners' = q.eventListeners
  /\ invoked' = q.invoked
  /\ stale' = q.stale
  /\ result' = q.result
  /\ lastTaskEvent' = q.lastTaskEvent

Initially(q) ==
  /\ tasks = q.tasks
  /\ attempts = q.attempts
  /\ failures = q.failures
  /\ totalUniqueTasksAdded = q.totalUniqueTasksAdded
  /\ completeTasks = q.completeTasks
  /\ failedTasks = q.failedTasks
  /\ totalWorkers = q.totalWorkers
  /\ workers = q.workers
  /\ retries = q.retries
  /\ aborted = q.aborted
  /\ est = q.est
  /\ ew = q.ew
  /\ created = q.created
  /\ nStart = q.nStart
  /\ cleared = q.cleared
  /\ nDrained = q.nDrained
  /\ lastDrained = q.lastDrained
  /\ evCompleted = q.evCompleted
  /\ evError = q.evError
  /\ lastError = q.lastError
  /\ cancelled = q.cancelled
  /\ threw = q.threw
  /\ halted = q.halted
  /\ lateStart = q.lateStart
  /\ haltDrained = q.haltDrained
  /\ addedLate = q.addedLate
  /\ settledOk = q.settledOk
  /\ settledErr = q.settledErr
  /\ discarded = q.discarded
  /\ ctor = q.ctor
  /\ listeners = q.listeners
  /\ eventListeners = q.eventListeners
  /\ invoked = q.invoked
  /\ stale = q.stale
  /\ result = q.result
  /\ lastTaskEvent = q.lastTaskEvent

\* --------------------------------------------------------- the methods
WorkerIds(q) == 0 .. (q.totalWorkers - 1)

\* get pendingTasks / completedTasks / failedTasks
PendingCount(q) == Len(q.tasks)
CompletedCount(q) == BagCardinality(q.completeTasks)
FailedCount(q) == BagCardinality(q.failedTasks)

allWorkersIdle(q) == \A i \in WorkerIds(q) : q.workers[i] = Null

BoundCount(q) == Cardinality({i \in WorkerIds(q) : q.workers[i] # Null})

\* addTask putting the new QueuedTask at the front.
addTaskInFront(q) ==
  LET id == q.created + 1 IN
  [q EXCEPT !.created = id,
            !.addedLate = @ \/ q.nStart > 0,
            !.totalUniqueTasksAdded = @ + 1,
            !.tasks = <<id>> \o @,
            !.attempts[id] = 0,
            !.failures[id] = <<>>]

\* addTask handing the new task to the first worker if it is idle.
addTaskRuns(q) ==
  LET id == q.created + 1
      q1 == [q EXCEPT !.created = id,
                      !.addedLate = @ \/ q.nStart > 0,
                      !.totalUniqueTasksAdded = @ + 1,
                      !.tasks = Append(@, id),
                      !.attempts[id] = 0,
                      !.failures[id] = <<>>]
  IN IF q.tasks = <<>> /\ 0 \in DOMAIN q.workers /\ q.workers[0] = Null
       THEN [q1 EXCEPT !.tasks = <<>>,
                       !.workers[0] = id,
                       !.attempts[id] = 1,
                       !.est[id] = "running",
                       !.ew[id] = 0]
       ELSE q1

\* addTask: a new QueuedTask {task, attempts: 0, failures: []} at the back.
addTask(q) ==
  LET id == q.created + 1 IN
  [q EXCEPT !.created = id,
            !.addedLate = @ \/ q.nStart > 0,
            !.totalUniqueTasksAdded = @ + 1,
            !.tasks = Append(@, id),
            !.attempts[id] = 0,
            !.failures[id] = <<>>]

\* addTasks: addTask for each of the k tasks given, in order.
RECURSIVE addTasks(_, _)
addTasks(q, k) == IF k = 0 THEN q ELSE addTasks(addTask(q), k - 1)

\* stop rejecting the running executions on every call.
stopAlways(q) ==
  LET hit == {t \in TaskIds : q.est[t] = "running"}
  IN [q EXCEPT !.halted = TRUE, !.haltDrained = FALSE, !.aborted = TRUE,
               !.est = [t \in TaskIds |->
                          IF t \in hit THEN "aborted" ELSE q.est[t]]]

\* stop: abortController.abort().  The abort event fires once, on the first
\* call: every execution still awaiting its task is rejected with an
\* AbortError.  The controller is never replaced, so a later call finds the
\* signal aborted already and fires nothing.
stop(q) ==
  LET hit == {t \in TaskIds : q.est[t] = "running"}
      q1 == [q EXCEPT !.halted = TRUE, !.haltDrained = FALSE]
  IN IF q.aborted
       THEN q1
       ELSE [q1 EXCEPT !.aborted = TRUE,
                       !.est = [t \in TaskIds |->
                                  IF t \in hit THEN "aborted" ELSE q.est[t]]]

\* ------------------------------------------------------- the listeners
\* The three event types, and the callbacks: two of a caller ("plain" does
\* nothing, "clearAll" calls clearAllEventListeners) and the three that
\* runTaskQueue registers.
EventTypes == {"all_workers_idle", "TaskCompletedEvent", "task_error"}
Callbacks == {"plain", "clearAll", "onSuccess", "onTaskCompleted", "onTaskError"}

\* The promise of runTaskQueue, not settled.
Unsettled == [done |-> FALSE, successfulTasks |-> 0, failedTasks |-> 0,
              totalTasks |-> 0]

\* addEventListener(type, cb, options): the EventTarget adds the listener
\* unless it has one of the same type, callback and capture flag; the
\* TaskQueue records {type, cb}.
addEventListener(q, type, cb, capture) ==
  LET l == [type |-> type, cb |-> cb, capture |-> capture]
      has == \E n \in 1 .. Len(q.listeners) : q.listeners[n] = l
  IN [q EXCEPT !.listeners = IF has THEN @ ELSE Append(@, l),
               !.eventListeners = @ \cup {[type |-> type, cb |-> cb]},
               !.stale = @ \ {cb}]

\* removeEventListener(type, cb), as clearAllEventListeners calls it: with
\* no options, it removes the listener whose capture flag is false.
removeEventListener(ls, type, cb) ==
  LET Kept(l) == l # [type |-> type, cb |-> cb, capture |-> FALSE]
  IN SelectSeq(ls, Kept)

RECURSIVE removeAll(_, _)
removeAll(ls, recorded) ==
  IF recorded = {} THEN ls
  ELSE LET r == CHOOSE x \in recorded : TRUE
       IN removeAll(removeEventListener(ls, r.type, r.cb), recorded \ {r})

\* clearAllEventListeners
clearAllEventListeners(q) ==
  [q EXCEPT !.listeners = removeAll(@, q.eventListeners),
            !.eventListeners = {},
            !.stale = @ \cup {r.cb : r \in q.eventListeners}]

\* A callback is called.
Call(q, cb) ==
  LET q1 == [q EXCEPT !.invoked[cb] = @ + 1] IN
  CASE cb = "clearAll" -> clearAllEventListeners(q1)
    [] cb = "onSuccess" ->
         IF q1.result.done THEN q1
         ELSE [q1 EXCEPT !.result = [done |-> TRUE,
                                     successfulTasks |-> q1.lastDrained.successfulTasks,
                                     failedTasks |-> q1.lastDrained.failedTasks,
                                     totalTasks |-> q1.lastDrained.totalTasks]]
    [] OTHER -> q1

\* dispatchEvent: the listeners of the type, as registered when the dispatch
\* starts, are called in order, each if it is still registered.
RECURSIVE dispatchFrom(_, _, _, _)
dispatchFrom(q, ls, n, type) ==
  IF n > Len(ls) THEN q
  ELSE LET l == ls[n]
           on == /\ l.type = type
                 /\ \E k \in 1 .. Len(q.listeners) : q.listeners[k] = l
       IN dispatchFrom(IF on THEN Call(q, l.cb) ELSE q, ls, n + 1, type)

dispatchEvent(q, type) == dispatchFrom(q, q.listeners, 1, type)

\* What a listener does when it is called.
TaskListenerActs == {"none", "add", "stop"}
DrainListenerActs == {"none"}

Listener(q, act) ==
  CASE act = "add" -> IF q.created < MaxTasks THEN addTasks(q, 1) ELSE q
    [] act = "stop" -> stop(q)
    [] OTHER -> q

\* The getters and the slot of worker i as a listener of a TASK_COMPLETED /
\* TASK_ERROR event reads them, the event being dispatched in state q.
Observed(q, i) ==
  [q EXCEPT !.lastTaskEvent = [completedTasks |-> CompletedCount(q),
                               failedTasks |-> FailedCount(q),
                               pendingTasks |-> PendingCount(q),
                               bound |-> q.workers[i] # Null]]

\* sendAllDone with the successes computed as what did not fail.
sendAllDoneBySubtraction(q, ld) ==
  Listener([q EXCEPT !.nDrained = @ + 1,
                     !.haltDrained = q.halted,
                     !.lastDrained = [successfulTasks |-> q.totalUniqueTasksAdded - FailedCount(q),
                                      failedTasks |-> FailedCount(q),
                                      totalTasks |-> q.totalUniqueTasksAdded,
                                      bound |-> BoundCount(q),
                                      pending |-> PendingCount(q),
                                      running |-> Cardinality({t \in TaskIds : q.est[t] = "running"})]],
           ld)

\* sendAllDone counting the tasks that failed, not their failed attempts.
sendAllDoneFailedOnce(q, ld) ==
  Listener([q EXCEPT !.nDrained = @ + 1,
                     !.haltDrained = q.halted,
                     !.lastDrained = [successfulTasks |-> CompletedCount(q),
                                      failedTasks |-> Cardinality({x.task : x \in BagToSet(q.failedTasks)}),
                                      totalTasks |-> q.totalUniqueTasksAdded,
                                      bound |-> BoundCount(q),
                                      pending |-> PendingCount(q),
                                      running |-> Cardinality({t \in TaskIds : q.est[t] = "running"})]],
           ld)

\* sendAllDone: dispatch a TaskQueueCompletedEvent with the three counters.
sendAllDone(q, ld) ==
  Listener(dispatchEvent(
           [q EXCEPT !.nDrained = @ + 1,
                     !.haltDrained = q.halted,
                     !.lastDrained = [successfulTasks |-> CompletedCount(q),
                                      failedTasks |-> FailedCount(q),
                                      totalTasks |-> q.totalUniqueTasksAdded,
                                      bound |-> BoundCount(q),
                                      pending |-> PendingCount(q),
                                      running |-> Cardinality({t \in TaskIds : q.est[t] = "running"})]],
           "all_workers_idle"),
           ld)

\* setWorkerFinished
setWorkerFinished(q, i) == [q EXCEPT !.workers[i] = Null]

\* runTask sending the all done event whenever it finds no task.
runTaskNoIdleCheck(q, i, ld) ==
  IF q.tasks = <<>>
    THEN sendAllDone(q, ld)
    ELSE LET t == Head(q.tasks) IN
         [q EXCEPT !.tasks = Tail(@),
                   !.workers[i] = t,
                   !.attempts[t] = @ + 1,
                   !.est[t] = "running",
                   !.ew[t] = i,
                   !.lateStart = @ \/ q.halted]

\* runTask starting the task without counting the attempt.
runTaskNoAttempt(q, i, ld) ==
  IF q.tasks = <<>>
    THEN IF allWorkersIdle(q) THEN sendAllDone(q, ld) ELSE q
    ELSE LET t == Head(q.tasks) IN
         [q EXCEPT !.tasks = Tail(@),
                   !.workers[i] = t,
                   !.est[t] = "running",
                   !.ew[t] = i,
                   !.lateStart = @ \/ q.halted]

\* runTask taking the last pending task.
runTaskTakesLast(q, i, ld) ==
  IF q.tasks = <<>>
    THEN IF allWorkersIdle(q) THEN sendAllDone(q, ld) ELSE q
    ELSE LET t == q.tasks[Len(q.tasks)] IN
         [q EXCEPT !.tasks = SubSeq(@, 1, Len(@) - 1),
                   !.workers[i] = t,
                   !.attempts[t] = @ + 1,
                   !.est[t] = "running",
                   !.ew[t] = i,
                   !.lateStart = @ \/ q.halted]

\* runTask up to its await: take the next task, bind it to the worker and
\* start it; with no task, send the all done event if every worker is idle.
runTask(q, i, ld) ==
  IF q.tasks = <<>>
    THEN IF allWorkersIdle(q) THEN sendAllDone(q, ld) ELSE q
    ELSE LET t == Head(q.tasks) IN
         [q EXCEPT !.tasks = Tail(@),
                   !.workers[i] = t,
                   !.attempts[t] = @ + 1,
                   !.est[t] = "running",
                   !.ew[t] = i,
                   !.lateStart = @ \/ q.halted]

\* runTask freeing its worker after a success and pulling nothing.
runTaskResolvedHalts(q, t, lt, ld) ==
  LET q1 == [q EXCEPT !.completeTasks = @ (+) SetToBag({t}),
                      !.est[t] = "none", !.ew[t] = 0]
      q2 == Listener([q1 EXCEPT !.evCompleted = @ + 1], lt)
  IN setWorkerFinished(q2, q.ew[t])

\* runTask dispatching no TASK_COMPLETED event.
runTaskResolvedSilent(q, t, lt, ld) ==
  LET q1 == [q EXCEPT !.completeTasks = @ (+) SetToBag({t}),
                      !.est[t] = "none", !.ew[t] = 0]
  IN runTask(setWorkerFinished(q1, q.ew[t]), q.ew[t], ld)

\* runTask after its await, the task having succeeded.
runTaskResolved(q, t, lt, ld) ==
  LET q1 == [q EXCEPT !.completeTasks = @ (+) SetToBag({t}),
                      !.est[t] = "none", !.ew[t] = 0]
      q2 == Listener(dispatchEvent(Observed([q1 EXCEPT !.evCompleted = @ + 1],
                                            q.ew[t]),
                                   "TaskCompletedEvent"), lt)
  IN runTask(setWorkerFinished(q2, q.ew[t]), q.ew[t], ld)

\* runTask leaving its worker bound after a failure.
runTaskRejectedHalts(q, t, lt, ld) ==
  LET e == ErrorOf(t, q.attempts[t])
      q1 == [q EXCEPT !.failures[t] = Append(@, e),
                      !.failedTasks = @ (+) SetToBag({[task |-> t, error |-> e]}),
                      !.est[t] = "none", !.ew[t] = 0]
  IN Listener([q1 EXCEPT !.evError = @ + 1, !.lastError = e], lt)

\* runTask retrying while attempts < retries.
runTaskRejectedOffByOne(q, t, lt, ld) ==
  LET e == ErrorOf(t, q.attempts[t])
      q1 == [q EXCEPT !.failures[t] = Append(@, e),
                      !.failedTasks = @ (+) SetToBag({[task |-> t, error |-> e]}),
                      !.est[t] = "none", !.ew[t] = 0]
      q2 == Listener([q1 EXCEPT !.evError = @ + 1, !.lastError = e], lt)
      q3 == IF q2.retries # 0 /\ q2.attempts[t] < q2.retries
              THEN [q2 EXCEPT !.tasks = Append(@, t)]
              ELSE q2
  IN runTask(setWorkerFinished(q3, q.ew[t]), q.ew[t], ld)

\* runTask dispatching the first error of the task with every TASK_ERROR.
runTaskRejectedFirstError(q, t, lt, ld) ==
  LET e == ErrorOf(t, q.attempts[t])
      q1 == [q EXCEPT !.failures[t] = Append(@, e),
                      !.failedTasks = @ (+) SetToBag({[task |-> t, error |-> e]}),
                      !.est[t] = "none", !.ew[t] = 0]
      q2 == Listener([q1 EXCEPT !.evError = @ + 1,
                                !.lastError = q1.failures[t][1]], lt)
      q3 == IF q2.retries # 0 /\ q2.attempts[t] <= q2.retries
              THEN [q2 EXCEPT !.tasks = Append(@, t)]
              ELSE q2
  IN runTask(setWorkerFinished(q3, q.ew[t]), q.ew[t], ld)

\* runTask dropping the failed task, whatever retries is.
runTaskRejectedLosesTask(q, t, lt, ld) ==
  LET e == ErrorOf(t, q.attempts[t])
      q1 == [q EXCEPT !.failures[t] = Append(@, e),
                      !.failedTasks = @ (+) SetToBag({[task |-> t, error |-> e]}),
                      !.est[t] = "none", !.ew[t] = 0]
      q2 == Listener(dispatchEvent(Observed([q1 EXCEPT !.evError = @ + 1,
                                                       !.lastError = e],
                                            q.ew[t]),
                                   "task_error"), lt)
  IN runTask(setWorkerFinished(q2, q.ew[t]), q.ew[t], ld)

\* runTask putting the task to retry at the front of the queue.
runTaskRejectedRetryFirst(q, t, lt, ld) ==
  LET e == ErrorOf(t, q.attempts[t])
      q1 == [q EXCEPT !.failures[t] = Append(@, e),
                      !.failedTasks = @ (+) SetToBag({[task |-> t, error |-> e]}),
                      !.est[t] = "none", !.ew[t] = 0]
      q2 == Listener(dispatchEvent(Observed([q1 EXCEPT !.evError = @ + 1,
                                                       !.lastError = e],
                                            q.ew[t]),
                                   "task_error"), lt)
      q3 == IF q2.retries # 0 /\ q2.attempts[t] <= q2.retries
              THEN [q2 EXCEPT !.tasks = <<t>> \o @]
              ELSE q2
  IN runTask(setWorkerFinished(q3, q.ew[t]), q.ew[t], ld)

\* runTask returning after it has queued the retry, its worker still bound.
runTaskRejectedKeepsBinding(q, t, lt, ld) ==
  LET e == ErrorOf(t, q.attempts[t])
      q1 == [q EXCEPT !.failures[t] = Append(@, e),
                      !.failedTasks = @ (+) SetToBag({[task |-> t, error |-> e]}),
                      !.est[t] = "none", !.ew[t] = 0]
      q2 == Listener(dispatchEvent(Observed([q1 EXCEPT !.evError = @ + 1,
                                                       !.lastError = e],
                                            q.ew[t]),
                                   "task_error"), lt)
  IN IF q2.retries # 0 /\ q2.attempts[t] <= q2.retries
       THEN [q2 EXCEPT !.tasks = Append(@, t)]
       ELSE runTask(setWorkerFinished(q2, q.ew[t]), q.ew[t], ld)

\* runTask after its await, the task having failed with an error.
runTaskRejected(q, t, lt, ld) ==
  LET e == ErrorOf(t, q.attempts[t])
      q1 == [q EXCEPT !.failures[t] = Append(@, e),
                      !.failedTasks = @ (+) SetToBag({[task |-> t, error |-> e]}),
                      !.est[t] = "none", !.ew[t] = 0]
      q2 == Listener(dispatchEvent(Observed([q1 EXCEPT !.evError = @ + 1,
                                                       !.lastError = e],
                                            q.ew[t]),
                                   "task_error"), lt)
      q3 == IF q2.retries # 0 /\ q2.attempts[t] <= q2.retries
              THEN [q2 EXCEPT !.tasks = Append(@, t)]
              ELSE q2
  IN runTask(setWorkerFinished(q3, q.ew[t]), q.ew[t], ld)

\* runTask taking the AbortError for a failure of the task.
runTaskAbortedAsFailure(q, t, ld) ==
  LET e == ErrorOf(t, q.attempts[t])
      q1 == [q EXCEPT !.failures[t] = Append(@, e),
                      !.failedTasks = @ (+) SetToBag({[task |-> t, error |-> e]}),
                      !.evError = @ + 1, !.lastError = e,
                      !.est[t] = "zombie", !.ew[t] = 0,
                      !.cancelled = @ \cup {t}]
      q2 == IF q1.retries # 0 /\ q1.attempts[t] <= q1.retries
              THEN [q1 EXCEPT !.tasks = Append(@, t)]
              ELSE q1
  IN runTask(setWorkerFinished(q2, q.ew[t]), q.ew[t], ld)

\* runTask putting a cancelled task back in the queue.
runTaskAbortedRequeues(q, t, ld) ==
  LET q1 == setWorkerFinished([q EXCEPT !.est[t] = "zombie", !.ew[t] = 0,
                                        !.cancelled = @ \cup {t},
                                        !.tasks = Append(@, t)],
                              q.ew[t])
  IN IF allWorkersIdle(q1) THEN sendAllDone(q1, ld) ELSE q1

\* runTask sending the all done event after every cancelled execution.
runTaskAbortedAlwaysDone(q, t, ld) ==
  sendAllDone(setWorkerFinished([q EXCEPT !.est[t] = "zombie", !.ew[t] = 0,
                                          !.cancelled = @ \cup {t}],
                                q.ew[t]),
              ld)

\* runTask after its await, the execution having been rejected with an
\* AbortError: free the worker and check for all done.  The task itself
\* goes on running, unobserved.
runTaskAborted(q, t, ld) ==
  LET q1 == setWorkerFinished([q EXCEPT !.est[t] = "zombie", !.ew[t] = 0,
                                        !.cancelled = @ \cup {t}],
                              q.ew[t])
  IN IF allWorkersIdle(q1) THEN sendAllDone(q1, ld) ELSE q1

\* startExecution: runTask for every worker id, then the all done check.
RECURSIVE runWorkers(_, _, _)
runWorkers(q, i, ld) ==
  IF i >= q.totalWorkers THEN q ELSE runWorkers(runTask(q, i, ld), i + 1, ld)

\* startExecution with the counters reset for the new run.
startExecutionResets(q, ld) ==
  LET q1 == runWorkers([q EXCEPT !.nStart = @ + 1, !.halted = FALSE,
                                 !.lateStart = FALSE,
                                 !.haltDrained = FALSE,
                                 !.completeTasks = EmptyBag,
                                 !.failedTasks = EmptyBag], 0, ld)
  IN IF allWorkersIdle(q1) THEN sendAllDone(q1, ld) ELSE q1

\* startExecution starting the first worker only.
startExecutionOneWorker(q, ld) ==
  LET q1 == runTask([q EXCEPT !.nStart = @ + 1, !.halted = FALSE,
                              !.lateStart = FALSE,
                              !.haltDrained = FALSE], 0, ld)
  IN IF allWorkersIdle(q1) THEN sendAllDone(q1, ld) ELSE q1

\* startExecution: every worker id is handed to runTask, bound or not.
startExecution(q, ld) ==
  LET q1 == runWorkers([q EXCEPT !.nStart = @ + 1, !.halted = FALSE,
                                 !.lateStart = FALSE,
                                 !.haltDrained = FALSE], 0, ld)
  IN IF allWorkersIdle(q1) THEN sendAllDone(q1, ld) ELSE q1

\* clearQueue resetting the counters and keeping the pending tasks.
clearQueueKeepsPending(q) ==
  IF ~allWorkersIdle(q)
    THEN [q EXCEPT !.threw = TRUE]
    ELSE [q EXCEPT !.cleared = TRUE,
                   !.totalUniqueTasksAdded = 0,
                   !.completeTasks = EmptyBag,
                   !.failedTasks = EmptyBag]

\* clearQueue resetting the queue before it looks at the workers.
clearQueueThenCheck(q) ==
  [q EXCEPT !.threw = ~allWorkersIdle(q),
            !.cleared = TRUE,
            !.discarded = @ \cup {q.tasks[n] : n \in 1 .. Len(q.tasks)},
            !.tasks = <<>>,
            !.totalUniqueTasksAdded = 0,
            !.completeTasks = EmptyBag,
            !.failedTasks = EmptyBag]

\* clearQueue
clearQueue(q) ==
  IF ~allWorkersIdle(q)
    THEN [q EXCEPT !.threw = TRUE]
    ELSE [q EXCEPT !.cleared = TRUE,
                   !.discarded = @ \cup {q.tasks[n] : n \in 1 .. Len(q.tasks)},
                   !.tasks = <<>>,
                   !.totalUniqueTasksAdded = 0,
                   !.completeTasks = EmptyBag,
                   !.failedTasks = EmptyBag]

\* ------------------------------------------------------- construction
\* No constructor call pending.
NoCall == [called |-> TRUE, given |-> FALSE, n |-> 0, tasks |-> 0, retries |-> 0]

\* The fields as their initialisers leave them, before the constructor body.
FieldInits(c) ==
  [tasks |-> <<>>,
   attempts |-> [t \in TaskIds |-> 0],
   failures |-> [t \in TaskIds |-> <<>>],
   totalUniqueTasksAdded |-> 0,
   completeTasks |-> EmptyBag,
   failedTasks |-> EmptyBag,
   totalWorkers |-> DefaultWorkers,
   workers |-> <<>>,
   retries |-> 0,
   aborted |-> FALSE,
   est |-> [t \in TaskIds |-> "none"],
   ew |-> [t \in TaskIds |-> 0],
   created |-> 0, nStart |-> 0, cleared |-> FALSE,
   nDrained |-> 0,
   lastDrained |-> [successfulTasks |-> 0, failedTasks |-> 0,
                    totalTasks |-> 0, bound |-> 0, pending |-> 0,
                    running |-> 0],
   evCompleted |-> 0, evError |-> 0, lastError |-> 0,
   cancelled |-> {}, threw |-> FALSE,
   halted |-> FALSE, lateStart |-> FALSE, haltDrained |-> FALSE,
   addedLate |-> FALSE,
   settledOk |-> [t \in TaskIds |-> 0],
   settledErr |-> [t \in TaskIds |-> 0],
   discarded |-> {},
   ctor |-> c,
   listeners |-> <<>>,
   eventListeners |-> {},
   invoked |-> [cb \in Callbacks |-> 0],
   stale |-> {},
   result |-> Unsettled,
   lastTaskEvent |-> [completedTasks |-> 0, failedTasks |-> 0,
                     pendingTasks |-> 0, bound |-> FALSE]]

\* Math.trunc of n / Denom
trunc(n) == IF n >= 0 THEN n \div Denom ELSE 0 - ((0 - n) \div Denom)

\* The constructor body, its arguments being q.ctor: totalWorkers is
\* n / Denom if given, tasks is a list of that many tasks.
constructor(q) ==
  LET c == q.ctor
      q1 == [q EXCEPT !.retries = c.retries,
                      !.totalWorkers = IF c.given /\ c.n > 0 THEN trunc(c.n) ELSE @]
      q2 == addTasks(q1, c.tasks)
  IN [q2 EXCEPT !.workers = [i \in WorkerIds(q2) |-> Null],
                !.ctor = NoCall]

\* new TaskQueue({totalWorkers: w, tasks: k tasks, retries: r})
Constructed(w, k, r) ==
  constructor(FieldInits([called |-> FALSE, given |-> TRUE, n |-> w * Denom,
                          tasks |-> k, retries |-> r]))

Init ==
  \E w \in 1 .. MaxWorkers, k \in 0 .. MaxTasks, r \in 0 .. MaxRetries :
    Initially(Constructed(w, k, r))

\* ------------------------------------------------------------ actions
\* The caller's calls.
AddTasks ==
  \E k \in 1 .. MaxTasks :
    /\ created + k <= MaxTasks
    /\ \E q \in {addTasks(Q, k)} : Commit(q)

StartExecution ==
  /\ nStart < MaxStarts
  /\ \E ld \in DrainListenerActs : \E q \in {startExecution(Q, ld)} : Commit(q)

Stop ==
  \E q \in {stop(Q)} : Commit(q)

ClearQueue ==
  \E q \in {clearQueue(Q)} : Commit(q)

\* The task of a running execution succeeds or fails: TaskRunner.run
\* settles its promise.
TaskSucceeds ==
  \E t \in TaskIds :
    /\ est[t] = "running"
    /\ \E q \in {[Q EXCEPT !.est[t] = "resolved", !.settledOk[t] = @ + 1]} : Commit(q)

TaskFails ==
  \E t \in TaskIds :
    /\ est[t] = "running"
    /\ \E q \in {[Q EXCEPT !.est[t] = "rejected", !.settledErr[t] = @ + 1]} : Commit(q)

\* The task of a cancelled execution settles: nobody is listening.
ZombieSettles ==
  \E t \in TaskIds :
    /\ est[t] = "zombie"
    /\ \E q \in {[Q EXCEPT !.est[t] = "none"]} : Commit(q)

\* runTask resumes after its await.
ResumeResolved ==
  \E t \in TaskIds, lt \in TaskListenerActs, ld \in DrainListenerActs :
    /\ est[t] = "resolved"
    /\ \E q \in {runTaskResolved(Q, t, lt, ld)} : Commit(q)

ResumeRejected ==
  \E t \in TaskIds, lt \in TaskListenerActs, ld \in DrainListenerActs :
    /\ est[t] = "rejected"
    /\ \E q \in {runTaskRejected(Q, t, lt, ld)} : Commit(q)

ResumeAborted ==
  \E t \in TaskIds, ld \in DrainListenerActs :
    /\ est[t] = "aborted"
    /\ \E q \in {runTaskAborted(Q, t, ld)} : Commit(q)

Next ==
  \/ AddTasks
  \/ StartExecution
  \/ Stop
  \/ ClearQueue
  \/ TaskSucceeds
  \/ TaskFails
  \/ ZombieSettles
  \/ ResumeResolved
  \/ ResumeRejected
  \/ ResumeAborted

Spec == Init /\ [][Next]_vars

\* The constructor alone: a call with any totalWorkers argument (none, zero,
\* negative, a positive integer or not), any tasks and retries.
TotalWorkersArgs == (0 - Denom) .. ((MaxWorkers + 1) * Denom)

CtorInit ==
  \E g \in BOOLEAN, n \in TotalWorkersArgs, k \in 0 .. MaxTasks,
     r \in 0 .. MaxRetries :
    /\ g \/ n = 0
    /\ Initially(FieldInits([called |-> FALSE, given |-> g, n |-> n,
                             tasks |-> k, retries |-> r]))

Construct ==
  /\ ~ctor.called
  /\ \E q \in {constructor(Q)} : Commit(q)

CtorNext == Construct

CtorSpec == CtorInit /\ [][CtorNext]_vars

\* A run: one startExecution(), never stop() nor clearQueue(); tasks are added
\* before the run or while a worker is bound (by the caller or by a
\* TASK_COMPLETED / TASK_ERROR listener).
RunListenerActs == {"none", "add"}

RunAddTasks ==
  \E k \in 1 .. MaxTasks :
    /\ created + k <= MaxTasks
    /\ nStart = 0 \/ ~allWorkersIdle(Q)
    /\ \E q \in {addTasks(Q, k)} : Commit(q)

RunStart ==
  /\ nStart = 0
  /\ \E q \in {startExecution(Q, "none")} : Commit(q)

RunResolved ==
  \E t \in TaskIds, lt \in RunListenerActs :
    /\ est[t] = "resolved"
    /\ \E q \in {runTaskResolved(Q, t, lt, "none")} : Commit(q)

RunRejected ==
  \E t \in TaskIds, lt \in RunListenerActs :
    /\ est[t] = "rejected"
    /\ \E q \in {runTaskRejected(Q, t, lt, "none")} : Commit(q)

RunNext ==
  \/ RunAddTasks
  \/ RunStart
  \/ TaskSucceeds
  \/ TaskFails
  \/ RunResolved
  \/ RunRejected

\* The call is made, every task settles, and the code after an await runs.
RunSpec ==
  /\ Init
  /\ [][RunNext]_vars
  /\ WF_vars(RunStart)
  /\ WF_vars(TaskSucceeds \/ TaskFails)
  /\ WF_vars(RunResolved)
  /\ WF_vars(RunRejected)

\* A run that is stopped and restarted: startExecution(), one stop() while a
\* worker is bound and, once the drained event has followed it, a second
\* startExecution().  No listener acts.
RestartStart ==
  /\ nStart = 0
  /\ \E q \in {startExecution(Q, "none")} : Commit(q)

RestartStop ==
  /\ nStart = 1 /\ ~aborted /\ ~allWorkersIdle(Q)
  /\ \E q \in {stop(Q)} : Commit(q)

RestartAgain ==
  /\ nStart = 1 /\ halted /\ haltDrained
  /\ \E q \in {startExecution(Q, "none")} : Commit(q)

RestartResolved ==
  \E t \in TaskIds :
    /\ est[t] = "resolved"
    /\ \E q \in {runTaskResolved(Q, t, "none", "none")} : Commit(q)

RestartRejected ==
  \E t \in TaskIds :
    /\ est[t] = "rejected"
    /\ \E q \in {runTaskRejected(Q, t, "none", "none")} : Commit(q)

RestartAborted ==
  \E t \in TaskIds :
    /\ est[t] = "aborted"
    /\ \E q \in {runTaskAborted(Q, t, "none")} : Commit(q)

RestartNext ==
  \/ RestartStart
  \/ RestartStop
  \/ RestartAgain
  \/ TaskSucceeds
  \/ TaskFails
  \/ ZombieSettles
  \/ RestartResolved
  \/ RestartRejected
  \/ RestartAborted

\* Every step but the stop is taken at last: the calls are made, every task
\* settles, and the code after an await runs.
RestartProgress ==
  \/ RestartStart
  \/ RestartAgain
  \/ TaskSucceeds
  \/ TaskFails
  \/ ZombieSettles
  \/ RestartResolved
  \/ RestartRejected
  \/ RestartAborted

RestartSpec ==
  /\ Init
  /\ [][RestartNext]_vars
  /\ WF_vars(RestartProgress)

\* A stopped and restarted run of tasks that succeed, with listeners: the
\* caller registers listeners and clears them while no worker is bound
\* (before the run, between the two runs, after them).
CallerCallbacks == {"plain", "clearAll"}

AddEventListener ==
  /\ Len(listeners) < MaxListeners
  /\ allWorkersIdle(Q)
  /\ \E type \in EventTypes, cb \in CallerCallbacks, capture \in BOOLEAN :
       \E q \in {addEventListener(Q, type, cb, capture)} : Commit(q)

ClearAllEventListeners ==
  /\ allWorkersIdle(Q)
  /\ \E q \in {clearAllEventListeners(Q)} : Commit(q)

ListenerNext ==
  \/ AddEventListener
  \/ ClearAllEventListeners
  \/ RestartStart
  \/ RestartStop
  \/ RestartAgain
  \/ TaskSucceeds
  \/ ZombieSettles
  \/ RestartResolved
  \/ RestartAborted

ListenerSpec == Init /\ [][ListenerNext]_vars

\* runTaskQueue(args), up to its return: a TaskQueue is constructed from
\* args.totalWorkers (RunDefaultWorkers if there is none) and args.tasks,
\* the three listeners are registered and startExecution is called.
runTaskQueue(q) ==
  LET a == q.ctor
      q0 == constructor([q EXCEPT !.ctor =
                          [called |-> FALSE, given |-> TRUE,
                           n |-> IF a.given THEN a.n ELSE RunDefaultWorkers * Denom,
                           tasks |-> a.tasks, retries |-> 0]])
      q1 == addEventListener(q0, "all_workers_idle", "onSuccess", FALSE)
      q2 == addEventListener(q1, "TaskCompletedEvent", "onTaskCompleted", FALSE)
      q3 == addEventListener(q2, "task_error", "onTaskError", FALSE)
  IN startExecution(q3, "none")

\* A call of runTaskQueue with any arguments; the caller has no reference
\* to the queue, and its callbacks act on nothing.
RunTaskQueue ==
  /\ ~ctor.called
  /\ \E q \in {runTaskQueue(Q)} : Commit(q)

QueueResolved ==
  \E t \in TaskIds :
    /\ est[t] = "resolved"
    /\ \E q \in {runTaskResolved(Q, t, "none", "none")} : Commit(q)

QueueRejected ==
  \E t \in TaskIds :
    /\ est[t] = "rejected"
    /\ \E q \in {runTaskRejected(Q, t, "none", "none")} : Commit(q)

RunQueueNext ==
  \/ RunTaskQueue
  \/ TaskSucceeds
  \/ TaskFails
  \/ QueueResolved
  \/ QueueRejected

\* Once the call is made, every task settles and the code after an await
\* runs.
RunQueueSpec ==
  /\ CtorInit
  /\ [][RunQueueNext]_vars
  /\ WF_vars(TaskSucceeds \/ TaskFails)
  /\ WF_vars(QueueResolved)
  /\ WF_vars(QueueRejected)

\* ------------------------------------------------------------- claims
Admitted == 1 .. created
Running == {t \in TaskIds : est[t] = "running"}
Pending == {tasks[n] : n \in 1 .. Len(tasks)}
Count(seq, t) == Cardinality({n \in 1 .. Len(seq) : seq[n] = t})
RECURSIVE Sum(_, _)
Sum(f, S) == IF S = {} THEN 0
             ELSE LET x == CHOOSE y \in S : TRUE IN f[x] + Sum(f, S \ {x})
CountFailed(t) ==
  LET S == {x \in BagToSet(failedTasks) : x.task = t}
  IN Sum([x \in S |-> CopiesIn(x, failedTasks)], S)
\* The run is over: started, nothing pending, nothing in flight.
RunOver == nStart = 1 /\ tasks = <<>> /\ \A t \in TaskIds : est[t] = "none"

\* C1: with stop() never called, under addTasks and startExecution calls and
\* task settlements, the executions started and not yet settled never
\* exceed totalWorkers.
C1_InFlightWithinWorkers ==
  (~aborted /\ ~cleared) => Cardinality(Running) <= totalWorkers

\* C2: with retries = 0 and N >= 1 tasks admitted before the one
\* startExecution(), every task is executed exactly once, and a drained
\* notification is sent with successfulTasks = N - F, failedTasks = F and
\* totalTasks = N, F being the number of tasks that failed.
C2_Pre == retries = 0 /\ ~addedLate /\ created >= 1
C2_Post ==
  /\ \A t \in Admitted : attempts[t] = 1 /\ settledOk[t] + settledErr[t] = 1
  /\ nDrained >= 1
  /\ lastDrained.successfulTasks = Cardinality({t \in Admitted : settledOk[t] = 1})
  /\ lastDrained.failedTasks = Cardinality({t \in Admitted : settledErr[t] = 1})
  /\ lastDrained.totalTasks = created
C2_AllRunOnceThenDrained == <>[](RunOver /\ (C2_Pre => C2_Post))
C2_Witness ==
  /\ RunOver /\ C2_Pre /\ C2_Post
  /\ totalWorkers >= 2 /\ created > totalWorkers
  /\ \E t \in Admitted : settledErr[t] = 1
  /\ \E t \in Admitted : settledOk[t] = 1

\* C3: a run started with N >= 1 pending tasks sends exactly one drained
\* notification, in the step that frees the last bound worker with nothing
\* pending.
C3_OneDrainedPerRun ==
  /\ <>[](nStart = 1 /\ (created >= 1 => nDrained = 1))
  /\ [][(created >= 1 /\ nDrained' # nDrained) =>
          /\ nDrained' = nDrained + 1
          /\ \E i \in 0 .. (totalWorkers - 1) : workers[i] # Null
          /\ \A i \in 0 .. (totalWorkers - 1) : workers'[i] = Null
          /\ tasks' = <<>>
          /\ lastDrained'.bound = 0 /\ lastDrained'.pending = 0]_vars
C3_Witness ==
  /\ RunOver /\ nDrained = 1
  /\ totalWorkers >= 2 /\ created > totalWorkers /\ retries >= 1 /\ addedLate
  /\ \E t \in Admitted : settledErr[t] >= 1

\* C4: a task that fails on every attempt is started retries + 1 times,
\* adds retries + 1 to failedTasks (one TASK_ERROR each), counts once in
\* totalTasks and is then dropped: it is never pending with its attempts
\* used up.
C4_Applies(t) == settledOk[t] = 0 /\ t \notin cancelled /\ ~cleared
C4_Dropped(t) == est[t] = "none" /\ t \notin Pending /\ attempts[t] >= 1
C4_AlwaysFailingTask ==
  /\ \A t \in Admitted : C4_Applies(t) =>
       /\ attempts[t] <= retries + 1
       /\ Count(tasks, t) <= 1
       /\ t \in Pending => attempts[t] <= retries
       /\ C4_Dropped(t) =>
            /\ attempts[t] = retries + 1
            /\ settledErr[t] = retries + 1
            /\ CountFailed(t) = retries + 1
            /\ Len(failures[t]) = retries + 1
  /\ ~cleared => (totalUniqueTasksAdded = created /\ evError = BagCardinality(failedTasks))
C4_Witness ==
  \E t \in Admitted :
    C4_Applies(t) /\ C4_Dropped(t) /\ retries >= 1 /\ attempts[t] = retries + 1

\* C5: with retries >= 1, a task that fails once and then succeeds is started
\* twice, and the drained notification counts it once in successfulTasks,
\* once in failedTasks and once in totalTasks.
C5_FailedThenSucceeded(t) == settledErr[t] = 1 /\ settledOk[t] = 1
C5_FailThenSucceed ==
  (RunOver /\ created >= 1) =>
    /\ \A t \in Admitted : C5_FailedThenSucceeded(t) =>
         /\ attempts[t] = 2
         /\ CopiesIn(t, completeTasks) = 1
         /\ CountFailed(t) = 1
    /\ lastDrained.successfulTasks = Cardinality({t \in Admitted : settledOk[t] >= 1})
    /\ lastDrained.failedTasks = Sum(settledErr, Admitted)
    /\ lastDrained.totalTasks = created
C5_Witness ==
  /\ RunOver /\ created >= 2 /\ nDrained = 1
  /\ \E t \in Admitted : C5_FailedThenSucceeded(t)
  /\ lastDrained.failedTasks >= 1

\* C6: after stop(), no task execution is started until startExecution() is
\* called again.
C6_NoStartAfterStop == ~lateStart

\* C7: after a stop() called while a worker is bound, exactly one drained
\* notification is sent (until the next startExecution()), with every worker
\* idle: once it has been sent, no other follows.
C7_OneDrainedAfterStop ==
  [][(halted /\ haltDrained /\ halted') => nDrained' = nDrained]_vars

\* C8: a stop() cancels every execution in flight: right after it, and as
\* long as nothing is started, no execution is still awaiting its task.
C8_StopCancelsAll == (halted /\ ~lateStart) => Running = {}

\* C9: the execution cancelled by stop() frees its worker and changes neither
\* the counters, the TASK_COMPLETED / TASK_ERROR events, the task's failures
\* and attempts, nor the pending queue; the later settlement of its task
\* changes nothing of the scheduler.
C9_CancelIsNeutral ==
  [][\A t \in TaskIds :
       /\ (est[t] = "aborted" /\ est'[t] # "aborted") =>
            /\ est'[t] = "zombie"
            /\ workers'[ew[t]] = Null
            /\ UNCHANGED <<tasks, attempts, failures, totalUniqueTasksAdded,
                           completeTasks, failedTasks, evCompleted, evError,
                           lastError>>
       /\ (est[t] = "zombie" /\ est'[t] # "zombie") =>
            UNCHANGED <<tasks, attempts, failures, totalUniqueTasksAdded,
                        completeTasks, failedTasks, workers, retries, aborted,
                        evCompleted, evError, nDrained>>]_vars
C9_Witness ==
  \E t \in Admitted :
    /\ t \in cancelled /\ est[t] = "none"
    /\ retries >= 1 /\ attempts[t] <= retries
    /\ tasks # <<>>

\* C10: clearQueue() with a worker bound throws and leaves the pending queue,
\* the counters and the workers as they were.
C10_ClearWhileBusy ==
  [][(ClearQueue /\ ~allWorkersIdle(Q)) =>
       /\ threw'
       /\ UNCHANGED <<tasks, attempts, failures, totalUniqueTasksAdded,
                      completeTasks, failedTasks, workers, est, ew>>]_vars
C10_Witness ==
  /\ threw
  /\ tasks # <<>> /\ completeTasks # EmptyBag /\ failedTasks # EmptyBag
  /\ \E i \in 0 .. (totalWorkers - 1) : workers[i] # Null

\* C11: clearQueue() with every worker idle empties the pending queue and
\* sets the completed, failed and total counters to 0; a task it discarded
\* is never pending nor started again, and a startExecution() on the cleared
\* queue sends the drained notification with zero metrics.
C11_ClearWhenIdle ==
  /\ [][(ClearQueue /\ allWorkersIdle(Q)) =>
          /\ ~threw'
          /\ tasks' = <<>>
          /\ totalUniqueTasksAdded' = 0
          /\ completeTasks' = EmptyBag /\ failedTasks' = EmptyBag
          /\ discarded' = discarded \cup Pending]_vars
  /\ [][\A t \in discarded :
          /\ t \notin Pending' /\ est'[t] = "none"
          /\ attempts'[t] = attempts[t]]_vars
  /\ [][(/\ StartExecution /\ cleared /\ allWorkersIdle(Q) /\ tasks = <<>>
         /\ totalUniqueTasksAdded = 0
         /\ completeTasks = EmptyBag /\ failedTasks = EmptyBag) =>
          /\ nDrained' > nDrained
          /\ lastDrained'.successfulTasks = 0
          /\ lastDrained'.failedTasks = 0
          /\ lastDrained'.totalTasks = 0]_vars
C11_Witness ==
  /\ discarded # {} /\ Cardinality(discarded) = created
  /\ \A t \in Admitted : attempts[t] = 0
  /\ nStart = 1 /\ nDrained >= 1
  /\ tasks = <<>> /\ totalUniqueTasksAdded = 0
  /\ lastDrained.totalTasks = 0

\* C12: startExecution() with nothing pending and every worker idle sends
\* exactly one drained notification, before it returns.
C12_OneDrainedOnEmptyStart ==
  [][(StartExecution /\ tasks = <<>> /\ allWorkersIdle(Q)) =>
       nDrained' = nDrained + 1]_vars

\* C13: startExecution() leaves every bound worker bound to the task it had;
\* only workers that were idle take a task from the pending queue.
C13_StartKeepsBoundWorkers ==
  [][StartExecution =>
       \A i \in 0 .. (totalWorkers - 1) :
         workers[i] # Null => workers'[i] = workers[i]]_vars

\* C14: whatever totalWorkers argument the constructor is given, totalWorkers
\* is then an integer >= 1 (the default when the argument is absent or <= 0,
\* else the argument without its fraction) and there are exactly
\* totalWorkers workers, all idle.
C14_TotalWorkersAtLeastOne ==
  [][Construct =>
       /\ totalWorkers' >= 1
       /\ totalWorkers' = IF ctor.given /\ ctor.n > 0
                            THEN trunc(ctor.n) ELSE DefaultWorkers
       /\ DOMAIN workers' = 0 .. (totalWorkers' - 1)
       /\ \A i \in DOMAIN workers' : workers'[i] = Null]_vars

\* C15: addTasks with k tasks adds k to totalTasks and appends k QueuedTasks
\* with attempts = 0 at the back of the pending queue, in order, leaving the
\* pending entries and the completed and failed tasks as they were; the
\* same holds of a task added by a listener, which ends behind every entry
\* that was pending (unless the handler starts it at once), and totalTasks
\* changes by nothing else, a retry included.
C15_AddTasksAppends ==
  [][/\ AddTasks =>
          /\ created' > created
          /\ totalUniqueTasksAdded' = totalUniqueTasksAdded + (created' - created)
          /\ tasks' = tasks \o [n \in 1 .. (created' - created) |-> created + n]
          /\ \A t \in (created + 1) .. created' : attempts'[t] = 0
          /\ UNCHANGED <<completeTasks, failedTasks, workers, est>>
     /\ \/ ClearQueue /\ allWorkersIdle(Q)
        \/ totalUniqueTasksAdded' - totalUniqueTasksAdded = created' - created
     /\ \A t \in (created + 1) .. created' :
          \/ attempts'[t] = 0 /\ Count(tasks', t) = 1
          \/ attempts'[t] = 1 /\ est'[t] = "running" /\ Count(tasks', t) = 0
     /\ \A a, b \in 1 .. Len(tasks') :
          (tasks'[a] > created /\ tasks'[b] \in Pending) => b < a]_vars
C15_Witness ==
  /\ addedLate /\ created = MaxTasks /\ totalUniqueTasksAdded = created
  /\ Len(tasks) >= 2 /\ tasks[Len(tasks)] = created
  /\ attempts[created] = 0
  /\ \E i \in 0 .. (totalWorkers - 1) : workers[i] # Null

\* C16: in a run, a pending task (one admitted while a worker was bound
\* included) is eventually started with no other startExecution() call.
C16_AddedTaskIsStarted ==
  \A t \in TaskIds : (nStart = 1 /\ t \in Pending) ~> (est[t] = "running")
C16_Witness ==
  /\ RunOver /\ addedLate /\ created >= 2
  /\ attempts[created] >= 1 /\ settledOk[created] >= 1

\* C17: a drained notification carries the completed, failed and total
\* counters as they are when it is sent.
C17_DrainedCarriesCounters ==
  [][nDrained' # nDrained =>
       /\ lastDrained'.successfulTasks = BagCardinality(completeTasks')
       /\ lastDrained'.failedTasks = BagCardinality(failedTasks')
       /\ lastDrained'.totalTasks = totalUniqueTasksAdded']_vars
C17_Witness ==
  /\ nDrained >= 1
  /\ lastDrained.successfulTasks >= 1
  /\ lastDrained.failedTasks > Cardinality({x.task : x \in BagToSet(failedTasks)})
  /\ lastDrained.failedTasks = BagCardinality(failedTasks)
  /\ lastDrained.totalTasks >= 2

\* C18: completedTasks and failedTasks count the TASK_COMPLETED and
\* TASK_ERROR notifications sent since construction or the last clearQueue():
\* one per settled attempt, none for a cancelled one, and a failure leaves
\* the scheduler working.
C18_EventsMatchCounters ==
  /\ [](~cleared => /\ BagCardinality(completeTasks) = evCompleted
                    /\ BagCardinality(failedTasks) = evError)
  /\ [][/\ \/ ClearQueue /\ allWorkersIdle(Q)
           \/ /\ BagCardinality(completeTasks') - BagCardinality(completeTasks)
                   = evCompleted' - evCompleted
              /\ BagCardinality(failedTasks') - BagCardinality(failedTasks)
                   = evError' - evError
        /\ \A t \in TaskIds :
             /\ (est[t] = "resolved" /\ est'[t] # "resolved") =>
                  evCompleted' = evCompleted + 1 /\ evError' = evError
             /\ (est[t] = "rejected" /\ est'[t] # "rejected") =>
                  /\ evError' = evError + 1 /\ evCompleted' = evCompleted
                  /\ ~threw'
             /\ (est[t] = "aborted" /\ est'[t] # "aborted") =>
                  evCompleted' = evCompleted /\ evError' = evError]_vars
C18_Witness ==
  /\ cleared /\ evCompleted > BagCardinality(completeTasks)
  /\ completeTasks # EmptyBag /\ failedTasks # EmptyBag
  /\ cancelled # {}

\* C19: the TASK_ERROR notification of a failed attempt carries the error
\* with which that attempt failed.
C19_ErrorEventCarriesError ==
  [][\A t \in TaskIds :
       (est[t] = "rejected" /\ est'[t] # "rejected") =>
         /\ evError' = evError + 1
         /\ lastError' = ErrorOf(t, attempts[t])
         /\ failures'[t] = Append(failures[t], lastError')]_vars
C19_Witness ==
  \E t, u \in Admitted :
    /\ t # u /\ failures[u] # <<>>
    /\ Len(failures[t]) = 2 /\ lastError = ErrorOf(t, 2)

\* C20: after a stop() in a run and the drained notification that follows
\* it, a second startExecution() runs what is pending to the end: a drained
\* notification is sent with nothing pending and no worker bound, and every
\* task that did not fail was started once over the two runs, the cancelled
\* ones included.
C20_Restarted == nStart = 2
C20_Done ==
  /\ tasks = <<>> /\ \A t \in TaskIds : est[t] = "none"
  /\ nDrained >= 2
  /\ lastDrained.pending = 0 /\ lastDrained.bound = 0
  /\ \A t \in Admitted : attempts[t] >= 1
  /\ \A t \in Admitted : (settledErr[t] = 0 \/ retries = 0) => attempts[t] = 1
C21_ClearedListenersStaySilent ==
  /\ [][\A cb \in stale : invoked'[cb] = invoked[cb]]_vars
  /\ [][(nDrained' > nDrained
         /\ \A n \in 1 .. Len(listeners) : listeners[n].cb # "clearAll") =>
          \A n \in 1 .. Len(listeners) :
            listeners[n].type = "all_workers_idle" =>
              invoked'[listeners[n].cb] >= invoked[listeners[n].cb] + 1]_vars
  /\ [][ClearAllEventListeners =>
          UNCHANGED <<tasks, attempts, failures, totalUniqueTasksAdded,
                      completeTasks, failedTasks, totalWorkers, workers,
                      est>>]_vars

\* C22: runTaskQueue, once called, ends having called onSuccess exactly once (the count
\* only grows, so never more than once) and resolved with the drained
\* metrics of the run, onTaskCompleted having been called once per task
\* that succeeded and onTaskError once per failed attempt.
C22_RunTaskQueueResolvesOnce ==
  <>[](ctor.called =>
       /\ result.done
       /\ invoked["onSuccess"] = 1
       /\ result.successfulTasks = Cardinality({t \in Admitted : settledOk[t] >= 1})
       /\ result.failedTasks = Sum(settledErr, Admitted)
       /\ result.totalTasks = created
       /\ invoked["onTaskCompleted"] = Sum(settledOk, Admitted)
       /\ invoked["onTaskError"] = Sum(settledErr, Admitted))

\* C23: first attempts start in admission order: a task has been started
\* only if every task admitted before it (and not discarded by clearQueue)
\* has been, and the tasks that one startExecution() starts go to the
\* workers in that order.
C23_FirstAttemptsInOrder ==
  /\ [](\A t \in Admitted, u \in Admitted :
          (u < t /\ attempts[t] >= 1) => (attempts[u] >= 1 \/ u \in discarded))
  /\ [][StartExecution =>
          \A t \in Admitted, u \in Admitted :
            (/\ u < t
             /\ attempts[u] = 0 /\ attempts[t] = 0
             /\ attempts'[u] = 1 /\ attempts'[t] = 1) => ew'[u] < ew'[t]]_vars
C23_Witness ==
  /\ created = MaxTasks /\ addedLate /\ ~cleared /\ totalWorkers >= 2
  /\ attempts[1] >= 2
  /\ attempts[MaxTasks] = 1 /\ est[MaxTasks] = "running"

\* C24: a retried task is put at the back of the pending queue: it is
\* started at once only if nothing else is pending, no pending task is ever
\* overtaken, and a pending task is started only with all those ahead of it.
Ahead(seq, t) == {seq[n] : n \in {m \in 1 .. Len(seq) : \A k \in 1 .. m : seq[k] # t}}
C24_RetryGoesLast ==
  [][\A t \in TaskIds :
       /\ (est[t] = "rejected" /\ t \in Pending') =>
            /\ tasks'[Len(tasks')] = t
            /\ attempts'[t] = attempts[t]
       /\ (est[t] = "rejected" /\ est'[t] = "running") =>
            Pending = {} /\ created' = created
       /\ (t \in Pending /\ t \in Pending') =>
            Ahead(tasks', t) \subseteq Ahead(tasks, t)
       /\ (t \in Pending /\ attempts'[t] > attempts[t]) =>
            \A u \in Ahead(tasks, t) : attempts'[u] > attempts[u]]_vars
C24_Witness ==
  /\ Len(tasks) >= 2
  /\ attempts[tasks[Len(tasks)]] >= 1
  /\ attempts[tasks[1]] = 0
  /\ ~cleared

\* C25: completedTasks, failedTasks and totalTasks never decrease, whatever
\* the step, a successful clearQueue() apart; without one, a drained
\* notification reports the counts since construction.
C25_CountersOnlyGrow ==
  /\ [][\/ ClearQueue /\ allWorkersIdle(Q)
        \/ /\ completeTasks \sqsubseteq completeTasks'
           /\ failedTasks \sqsubseteq failedTasks'
           /\ totalUniqueTasksAdded' >= totalUniqueTasksAdded]_vars
  /\ [][(nDrained' # nDrained /\ ~cleared') =>
          /\ lastDrained'.successfulTasks = evCompleted'
          /\ lastDrained'.failedTasks = evError'
          /\ lastDrained'.totalTasks = created']_vars
C25_Witness ==
  /\ nStart = 2 /\ ~cleared /\ aborted /\ nDrained >= 2
  /\ lastDrained.successfulTasks >= 2 /\ lastDrained.failedTasks >= 1
  /\ lastDrained.totalTasks = MaxTasks
  /\ tasks = <<>> /\ \A t \in TaskIds : est[t] = "none"

\* C26: a QueuedTask is bound to at most one worker, and is never pending
\* while it is bound.
C26_OneOwner ==
  /\ \A i \in 0 .. (totalWorkers - 1), j \in 0 .. (totalWorkers - 1) :
       (i # j /\ workers[i] # Null) => workers[i] # workers[j]
  /\ \A i \in 0 .. (totalWorkers - 1) :
       workers[i] # Null => workers[i] \notin Pending
C26_Witness ==
  /\ totalWorkers >= 2
  /\ \A i \in 0 .. (totalWorkers - 1) : workers[i] # Null
  /\ \E t \in Pending : attempts[t] >= 1

\* C27: a drained notification is sent only with every worker idle.
C27_DrainedOnlyWhenIdle ==
  [][nDrained' # nDrained =>
       /\ lastDrained'.bound = 0
       /\ \A i \in 0 .. (totalWorkers - 1) : workers'[i] = Null]_vars
C27_Witness ==
  /\ nDrained >= 1 /\ lastDrained.bound = 0
  /\ totalWorkers >= 2 /\ cancelled # {} /\ evCompleted >= 1
  /\ halted /\ haltDrained

\* C28: a drained notification is sent only with the pending queue empty.
C28_DrainedOnlyWhenEmpty ==
  [][nDrained' # nDrained => lastDrained'.pending = 0]_vars

\* C29: in a run whose tasks were all admitted before its startExecution(),
\* every worker is bound or nothing is pending: the executions in flight
\* are as many as the workers, or as the tasks left if they are fewer.
C29_InFlight == {t \in TaskIds : est[t] \in {"running", "resolved", "rejected"}}
C29_WorkersSaturated ==
  (nStart = 1 /\ ~addedLate) =>
    /\ BoundCount(Q) = totalWorkers \/ tasks = <<>>
    /\ Cardinality(C29_InFlight) = BoundCount(Q)
    /\ BoundCount(Q) <= totalWorkers
C29_Witness ==
  /\ nStart = 1 /\ ~addedLate
  /\ totalWorkers >= 2 /\ BoundCount(Q) = totalWorkers
  /\ tasks # <<>> /\ evError >= 1

\* C30: a stop() after a stop(), with no startExecution() between them,
\* changes nothing of the queue, the counters, the workers, the executions
\* (so of the notifications to come).
C30_SecondStopIsNoOp ==
  [][(Stop /\ halted) =>
       UNCHANGED <<tasks, attempts, failures, totalUniqueTasksAdded,
                   completeTasks, failedTasks, totalWorkers, workers,
                   retries, aborted, est, ew, nDrained, evCompleted,
                   evError>>]_vars
C30_Witness ==
  /\ nStart = 1 /\ halted /\ ~haltDrained
  /\ cancelled # {} /\ nDrained >= 1 /\ tasks # <<>>
  /\ \A i \in 0 .. (totalWorkers - 1) : workers[i] = Null
  /\ \A t \in TaskIds : est[t] \in {"none", "zombie"}

\* C31: neither the constructor nor addTasks starts an execution or
\* touches a worker: before the first startExecution() every worker is idle,
\* no task has been started and the admitted tasks are all pending; an
\* execution is started only by startExecution() or by the code that runs
\* after a settled execution and pulls the next task.
C31_OnlyWorkersStart ==
  /\ []((nStart = 0 /\ ~cleared) =>
          /\ \A i \in 0 .. (totalWorkers - 1) : workers[i] = Null
          /\ \A t \in TaskIds : est[t] = "none" /\ attempts[t] = 0
          /\ PendingCount(Q) = created
          /\ totalUniqueTasksAdded = created)
  /\ [][AddTasks => UNCHANGED <<workers, est, attempts, ew>>]_vars
  /\ [][(\E t \in TaskIds : est'[t] = "running" /\ est[t] # "running") =>
          \/ StartExecution
          \/ \E t \in TaskIds : est[t] \in {"resolved", "rejected"} /\ est'[t] # est[t]]_vars
C31_Witness ==
  /\ nStart = 1 /\ addedLate /\ created = MaxTasks
  /\ totalWorkers >= 2
  /\ workers[0] # Null /\ workers[1] = Null
  /\ tasks # <<>> /\ attempts[tasks[1]] = 0

\* C32: stop() leaves the pending queue and the counters as they are, and
\* from the stop to the drained notification that follows it no pending
\* task leaves the queue or changes place (startExecution() and
\* clearQueue() apart).
IsPrefix(a, b) == Len(a) <= Len(b) /\ SubSeq(b, 1, Len(a)) = a
C32_StopKeepsPending ==
  /\ [][Stop => UNCHANGED <<tasks, completeTasks, failedTasks,
                            totalUniqueTasksAdded>>]_vars
  /\ [][(halted /\ ~haltDrained /\ nStart' = nStart /\ ~ClearQueue) =>
          IsPrefix(tasks, tasks')]_vars

\* C33: attempts grows by one with each execution started and only then,
\* failures by one entry with each failed execution observed and only then
\* (a cancelled one adds none), and a pending task has as many failures as
\* attempts, at most retries.
C33_AttemptsAndFailures ==
  /\ [][\A t \in TaskIds :
          /\ attempts'[t] = attempts[t] + 1 \/ attempts'[t] = attempts[t]
          /\ (attempts'[t] = attempts[t] + 1) <=>
               (est'[t] = "running" /\ est[t] # "running")
          /\ Len(failures'[t]) =
               Len(failures[t]) + (IF est[t] = "rejected" /\ est'[t] # "rejected"
                                     THEN 1 ELSE 0)]_vars
  /\ [](\A t \in Pending :
          /\ Len(failures[t]) = attempts[t]
          /\ attempts[t] <= retries)
C33_Witness ==
  /\ \E t \in Pending : attempts[t] = 1 /\ Len(failures[t]) = 1
  /\ \E t \in cancelled : attempts[t] = 2 /\ Len(failures[t]) = 1

\* C34: the listeners of TASK_COMPLETED / TASK_ERROR find the counter
\* already incremented, the retry not yet queued and the slot of the worker
\* still bound; and a drained notification never counts an attempt whose
\* notification has not been sent.
C34_SettleOrder ==
  /\ [][evCompleted' > evCompleted =>
          /\ lastTaskEvent'.completedTasks = CompletedCount(Q) + 1
          /\ lastTaskEvent'.bound]_vars
  /\ [][evError' > evError =>
          /\ lastTaskEvent'.failedTasks = FailedCount(Q) + 1
          /\ lastTaskEvent'.pendingTasks = PendingCount(Q)
          /\ lastTaskEvent'.bound]_vars
  /\ [][nDrained' > nDrained =>
          /\ lastDrained'.successfulTasks <= evCompleted'
          /\ lastDrained'.failedTasks <= evError']_vars

\* C35: with stop() never called, a drained notification is sent only when
\* no started execution is still running.
C35_DrainedAfterAllSettled ==
  [][(nDrained' > nDrained /\ ~aborted') => lastDrained'.running = 0]_vars

\* C36: completedTasks <= totalTasks in every state.
C36_CompletedWithinTotal ==
  CompletedCount(Q) <= totalUniqueTasksAdded

\* C37: with clearQueue() never called, every admitted task is in exactly
\* one place (pending once, in flight, completed once, terminally failed,
\* cancelled), and totalTasks is the sum of the five.
C37_InFlight(t) == est[t] \in {"running", "resolved", "rejected"}
C37_Completed(t) == CopiesIn(t, completeTasks) >= 1
C37_Cancelled(t) == est[t] = "aborted" \/ t \in cancelled
C37_TerminallyFailed(t) ==
  /\ ~C37_InFlight(t) /\ ~C37_Cancelled(t)
  /\ attempts[t] >= 1 /\ Len(failures[t]) = attempts[t]
  /\ ~(retries # 0 /\ attempts[t] <= retries)
C37_Places(t) ==
  (IF t \in Pending THEN 1 ELSE 0) + (IF C37_InFlight(t) THEN 1 ELSE 0)
  + (IF C37_Completed(t) THEN 1 ELSE 0)
  + (IF C37_TerminallyFailed(t) THEN 1 ELSE 0)
  + (IF C37_Cancelled(t) THEN 1 ELSE 0)
C37_EveryTaskInOnePlace ==
  ~cleared =>
    /\ \A t \in Admitted :
         /\ C37_Places(t) = 1
         /\ Count(tasks, t) <= 1
         /\ CopiesIn(t, completeTasks) <= 1
    /\ totalUniqueTasksAdded =
         PendingCount(Q) + CompletedCount(Q)
         + Cardinality({t \in Admitted : C37_InFlight(t)})
         + Cardinality({t \in Admitted : C37_TerminallyFailed(t)})
         + Cardinality({t \in Admitted : C37_Cancelled(t)})
C37_Witness ==
  /\ ~cleared /\ created = MaxTasks
  /\ \E t \in Admitted : C37_Completed(t) /\ Len(failures[t]) = 1
  /\ \E t \in Admitted : C37_TerminallyFailed(t)
  /\ \E t \in Admitted : C37_Cancelled(t)

\* C38: during a run (a worker bound, stop() not called, tasks added), no
\* worker is idle while a task is pending.
C38_AddedTasksGoToIdleWorkers ==
  (addedLate /\ ~aborted /\ ~allWorkersIdle(Q)) =>
    (tasks = <<>> \/ BoundCount(Q) = totalWorkers)

\* C39: runTaskQueue(args) leaves the queue as new TaskQueue(args) followed
\* by startExecution() does, retries included.
C39_RunTaskQueueAsTaskQueue ==
  [][RunTaskQueue =>
       \E q \in {startExecution(constructor(
                   [Q EXCEPT !.ctor.given = TRUE,
                             !.ctor.n = IF ctor.given THEN @
                                        ELSE RunDefaultWorkers * Denom]), "none")} :
         /\ retries' = q.retries
         /\ totalWorkers' = q.totalWorkers
         /\ tasks' = q.tasks
         /\ workers' = q.workers
         /\ attempts' = q.attempts
         /\ totalUniqueTasksAdded' = q.totalUniqueTasksAdded]_vars

====
